---- MODULE Spec2Model ----
(***************************************************************************)
(* A model of the tindex crate (typed-index collections).                  *)
(*                                                                         *)
(* TBitSet<I> (src/src/bitset.rs) is a Vec<u64> of frames.  A frame is     *)
(* modelled as the set of its set bit positions, a subset of               *)
(* 0..FRAME_SIZE-1: `a | b` is union, `a & b` intersection, `a ^ b`        *)
(* symmetric difference, `!a` the complement within 0..FRAME_SIZE-1,       *)
(* `1 << k` the singleton {k}, `count_ones` the cardinality and 0 the      *)
(* empty set.  This keeps all 64 bits of a frame.                          *)
(***************************************************************************)
EXTENDS Integers, Sequences, FiniteSets, TLC

\* bitset.rs:14  FRAME_SIZE = size_of::<u64>() * 8
FRAME_SIZE == 64

\* Number of frames the enumerated add/flip indices reach.
MaxFrames == 2

\* Bit positions inside a frame used by the enumerated indices: the lowest
\* and the highest bit of a frame.
Offsets == {0, FRAME_SIZE - 1}

\* Indices handed to add / set / flip / extend.
GrowIdx == {f * FRAME_SIZE + o : f \in 0..(MaxFrames - 1), o \in Offsets}

\* An index far beyond any storage (tests::test removes FRAME_SIZE * 100).
FarIdx == FRAME_SIZE * 100

\* Indices handed to remove / set(false) / get.
AnyIdx == GrowIdx \cup {MaxFrames * FRAME_SIZE, FarIdx}

\* Option<T>: None is the empty sequence, Some(x) the one-element sequence.
None == << >>

Some(x) == << x >>

Max(x, y) == IF x >= y THEN x ELSE y
Min(x, y) == IF x <= y THEN x ELSE y

-----------------------------------------------------------------------------
(* Index capability: impl TIndex for usize.                                *)

as_index(i) == i

from_index(index) == index

-----------------------------------------------------------------------------
(* Frame (u64) arithmetic.                                                 *)

AllBits == 0..(FRAME_SIZE - 1)

\* 1 << k
Bit(k) == {k}

\* !frame
Not(frame) == AllBits \ frame

\* a ^ b
Xor(a, b) == (a \ b) \cup (b \ a)

\* Vec::resize(new_len, value)
Resize(v, new_len, value) ==
    IF new_len <= Len(v)
    THEN SubSeq(v, 1, new_len)
    ELSE v \o [k \in 1..(new_len - Len(v)) |-> value]

\* Vec index k (0-based) of v
At(v, k) == v[k + 1]

\* v with element k (0-based) replaced
Put(v, k, x) == [v EXCEPT ![k + 1] = x]

-----------------------------------------------------------------------------
(* TBitSet                                                                 *)

\* TBitSet::new
new == << >>

frame_count(self) == Len(self)

is_empty(self) == \A k \in 1..Len(self) : self[k] = {}

clear(self) == << >>

RECURSIVE SumOnes(_, _)
SumOnes(self, k) ==
    IF k > Len(self) THEN 0 ELSE Cardinality(self[k]) + SumOnes(self, k + 1)

\* Variant: the fold adds 1 per non-zero frame instead of count_ones().
element_count_frames(self) == Cardinality({k \in 1..Len(self) : self[k] # {}})

element_count(self) == SumOnes(self, 1)

\* Variant: `if` in place of `while`, at most one frame is popped.
shrink_to_fit_once(self) ==
    IF Len(self) > 0 /\ self[Len(self)] = {}
    THEN SubSeq(self, 1, Len(self) - 1)
    ELSE self

RECURSIVE shrink_to_fit(_)
shrink_to_fit(self) ==
    IF Len(self) > 0 /\ self[Len(self)] = {}
    THEN shrink_to_fit(SubSeq(self, 1, Len(self) - 1))
    ELSE self

\* Variant: clearing a bit also pops the trailing all-zero frames.
set_usize_trim(self, idx, value) ==
    LET frame_offset == idx \div FRAME_SIZE
        bit == Bit(idx - frame_offset * FRAME_SIZE)
    IN  IF frame_offset >= Len(self)
        THEN IF value
             THEN LET grown == Resize(self, frame_offset + 1, {})
                  IN  Put(grown, frame_offset, At(grown, frame_offset) \cup bit)
             ELSE self
        ELSE IF value
             THEN Put(self, frame_offset, At(self, frame_offset) \cup bit)
             ELSE shrink_to_fit(
                      Put(self, frame_offset, At(self, frame_offset) \cap Not(bit)))

\* Variant: growing resizes to frame_offset + 2, one frame too many.
set_usize_overgrow(self, idx, value) ==
    LET frame_offset == idx \div FRAME_SIZE
        bit == Bit(idx - frame_offset * FRAME_SIZE)
    IN  IF frame_offset >= Len(self)
        THEN IF value
             THEN LET grown == Resize(self, frame_offset + 2, {})
                  IN  Put(grown, frame_offset, At(grown, frame_offset) \cup bit)
             ELSE self
        ELSE IF value
             THEN Put(self, frame_offset, At(self, frame_offset) \cup bit)
             ELSE Put(self, frame_offset, At(self, frame_offset) \cap Not(bit))

\* Variant: the resize is hoisted out of `if value`, so clearing a bit beyond
\* the storage allocates frames.
set_usize_alloc(self, idx, value) ==
    LET frame_offset == idx \div FRAME_SIZE
        bit == Bit(idx - frame_offset * FRAME_SIZE)
        grown == IF frame_offset >= Len(self)
                 THEN Resize(self, frame_offset + 1, {})
                 ELSE self
    IN  IF frame_offset >= Len(grown)
        THEN grown
        ELSE IF value
             THEN Put(grown, frame_offset, At(grown, frame_offset) \cup bit)
             ELSE Put(grown, frame_offset, At(grown, frame_offset) \cap Not(bit))

set_usize(self, idx, value) ==
    LET frame_offset == idx \div FRAME_SIZE
        bit == Bit(idx - frame_offset * FRAME_SIZE)
    IN  IF frame_offset >= Len(self)
        THEN IF value
             THEN LET grown == Resize(self, frame_offset + 1, {})
                  IN  Put(grown, frame_offset, At(grown, frame_offset) \cup bit)
             ELSE self
        ELSE IF value
             THEN Put(self, frame_offset, At(self, frame_offset) \cup bit)
             ELSE Put(self, frame_offset, At(self, frame_offset) \cap Not(bit))

set(self, idx, value) == set_usize(self, as_index(idx), value)

add(self, idx) == set_usize(self, as_index(idx), TRUE)

remove(self, idx) == set_usize(self, as_index(idx), FALSE)

\* Variant: `|=` in place of `^=`, a set bit is never cleared.
flip_usize_or(self, idx) ==
    LET frame_offset == idx \div FRAME_SIZE
        grown == IF frame_offset >= Len(self)
                 THEN Resize(self, frame_offset + 1, {})
                 ELSE self
    IN  Put(grown, frame_offset,
            At(grown, frame_offset) \cup Bit(idx - frame_offset * FRAME_SIZE))

flip_usize(self, idx) ==
    LET frame_offset == idx \div FRAME_SIZE
        grown == IF frame_offset >= Len(self)
                 THEN Resize(self, frame_offset + 1, {})
                 ELSE self
    IN  Put(grown, frame_offset,
            Xor(At(grown, frame_offset), Bit(idx - frame_offset * FRAME_SIZE)))

flip(self, idx) == flip_usize(self, as_index(idx))

get_usize(self, idx) ==
    LET frame_offset == idx \div FRAME_SIZE
    IN  IF frame_offset < Len(self)
        THEN At(self, frame_offset) \cap Bit(idx - frame_offset * FRAME_SIZE) # {}
        ELSE FALSE

get(self, idx) == get_usize(self, as_index(idx))

RECURSIVE extend(_, _)
extend(self, items) ==
    IF items = << >> THEN self
    ELSE extend(add(self, Head(items)), Tail(items))

\* impl Clone for TBitSet
clone(self) == self

\* iter::chain(iter::repeat(0)) read at position k (1-based)
ChainZero(v, k) == IF k <= Len(v) THEN v[k] ELSE {}

\* Variant: both sides zipped without chain(repeat(0)), so only the common
\* prefix of frames is compared.
eq_zip(self, rhs) ==
    \A k \in 1..Min(Len(self), Len(rhs)) : self[k] = rhs[k]

\* impl PartialEq for TBitSet
eq(self, rhs) ==
    IF frame_count(self) < frame_count(rhs)
    THEN \A k \in 1..Len(rhs) : ChainZero(self, k) = rhs[k]
    ELSE \A k \in 1..Len(self) : self[k] = ChainZero(rhs, k)

\* Variant: self zipped without chain(repeat(0)), so the frames of other
\* beyond self are never looked at.
contains_zip(self, oth) ==
    \A k \in 1..Min(Len(self), Len(oth)) : (self[k] \cup oth[k]) = self[k]

contains(self, oth) ==
    \A k \in 1..Len(oth) :
        (ChainZero(self, k) \cup oth[k]) = ChainZero(self, k)

\* Variant: `l | r` in place of `l & r`.
union_or(self, oth) ==
    [k \in 1..Min(Len(self), Len(oth)) |-> self[k] \cup oth[k]]

union(self, oth) ==
    [k \in 1..Min(Len(self), Len(oth)) |-> self[k] \cap oth[k]]

-----------------------------------------------------------------------------
(* Iter: the cursor pair (pos, end_pos) over a borrowed TBitSet.           *)

iter(self) == [pos |-> 0, end_pos |-> frame_count(self) * FRAME_SIZE]

\* The least element of a non-empty set of positions.
Least(S) == CHOOSE p \in S : \A q \in S : p <= q

\* The greatest element of a non-empty set of positions.
Greatest(S) == CHOOSE p \in S : \A q \in S : p >= q

\* Variant: `while self.pos < self.end_pos`, the position end_pos is never
\* visited from the front.
NextLoop_lt(self, pos, end_pos) ==
    LET hits == {p \in pos..(end_pos - 1) : get_usize(self, p)}
    IN  IF hits # {}
        THEN [pos |-> Least(hits) + 1, ret |-> Some(from_index(Least(hits)))]
        ELSE [pos |-> Max(pos, end_pos), ret |-> None]

\* The while loop of Iter::next, from cursor pos: it stops at the first
\* position in pos..=end_pos whose bit is set, leaving pos one past it, or
\* runs pos to end_pos + 1.
NextLoop(self, pos, end_pos) ==
    LET hits == {p \in pos..end_pos : get_usize(self, p)}
    IN  IF hits # {}
        THEN [pos |-> Least(hits) + 1, ret |-> Some(from_index(Least(hits)))]
        ELSE [pos |-> Max(pos, end_pos + 1), ret |-> None]

\* Iter::next: the cursors afterwards and the returned Option.
next(self, c) ==
    LET r == NextLoop(self, c.pos, c.end_pos)
    IN  [pos |-> r.pos, end_pos |-> c.end_pos, ret |-> r.ret]

\* The while loop of Iter::next_back, from cursor end_pos: it stops at the
\* last position in pos+1..=end_pos whose bit is set, leaving end_pos one
\* before it, or runs end_pos down to pos.
BackLoop(self, pos, end_pos) ==
    LET hits == {p \in (pos + 1)..end_pos : get_usize(self, p)}
    IN  IF hits # {}
        THEN [end_pos |-> Greatest(hits) - 1,
              ret |-> Some(from_index(Greatest(hits)))]
        ELSE [end_pos |-> Min(pos, end_pos), ret |-> None]

\* Variant: without the `if self.end_pos == self.pos` block after the loop.
next_back_loop_only(self, c) ==
    LET r == BackLoop(self, c.pos, c.end_pos)
    IN  [pos |-> c.pos, end_pos |-> r.end_pos, ret |-> r.ret]

\* Iter::next_back: the cursors afterwards and the returned Option.
next_back(self, c) ==
    LET r == BackLoop(self, c.pos, c.end_pos)
    IN  IF r.ret # None
        THEN [pos |-> c.pos, end_pos |-> r.end_pos, ret |-> r.ret]
        ELSE IF r.end_pos = c.pos
             THEN [pos |-> c.pos + 1, end_pos |-> r.end_pos,
                   ret |-> IF get_usize(self, r.end_pos)
                           THEN Some(from_index(r.end_pos))
                           ELSE None]
             ELSE [pos |-> c.pos, end_pos |-> r.end_pos, ret |-> None]

\* The values self.iter().for_each(|i| i.hash(state)) feeds to the hasher,
\* from cursors c on.
RECURSIVE for_each_hash(_, _)
for_each_hash(self, c) ==
    LET r == next(self, c)
    IN  IF r.ret = None THEN << >>
        ELSE << r.ret[1] >> \o for_each_hash(self, r)

\* Variant: the frame count is fed first, as Vec's own Hash feeds its length.
hash_len_prefix(self) ==
    << frame_count(self) >> \o for_each_hash(self, iter(self))

\* impl Hash for TBitSet: the sequence of values fed to the hasher.
hash(self) == for_each_hash(self, iter(self))

-----------------------------------------------------------------------------
(* usize and u32 values of the typed vector.                               *)
(*                                                                         *)
(* A usize (64 bits) is the pair << hi, lo >> standing for hi * 2^32 + lo   *)
(* with 0 <= lo < 2^32; a u32 is such a pair with hi = 0.  Lengths of 2^32 *)
(* and more are thereby representable.  hi and lo are 32-bit words; a word *)
(* of 2^31 or more is written as the signed integer with the same 32 bits  *)
(* (2^32 - 1 as -1), and ULt orders words as unsigned numbers.              *)

Wide(hi, lo) == << hi, lo >>

\* The word 2^32 - 1 (u32::MAX).
WordMax == -1

\* usize::MAX on a 64-bit target
USIZE_MAX == Wide(WordMax, WordMax)

\* a < b on 32-bit words
ULt(a, b) == IF (a < 0) = (b < 0) THEN a < b ELSE b < 0

\* a < b and a <= b on usize
WLt(a, b) == ULt(a[1], b[1]) \/ (a[1] = b[1] /\ ULt(a[2], b[2]))

WLe(a, b) == a = b \/ WLt(a, b)

\* w + 1 on usize, for w < usize::MAX
WInc(w) == IF w[2] = WordMax THEN Wide(w[1] + 1, 0) ELSE Wide(w[1], w[2] + 1)

\* The index types the crate implements TIndex for.
IndexTypes == {"usize", "u32"}

\* TIndex::as_index: `self` for usize, `self as usize` for u32 (widening).
as_index_of(I, i) == i

\* TIndex::from_index: `index` for usize, `index as u32` for u32, which
\* keeps the low 32 bits.
from_index_of(I, index) ==
    IF I = "u32" THEN Wide(0, index[2]) ELSE index

-----------------------------------------------------------------------------
(* TVec<I, T> and TSlice<I, T>.                                            *)
(*                                                                         *)
(* The Vec<T> of a TVec is the record [pad, fill, elems]: pad blocks of    *)
(* 2^32 elements equal to fill (a vector built by tvec![fill; n]),         *)
(* followed by the elements elems.  With pad = 0 it is the plain sequence  *)
(* elems.                                                                  *)

\* Element values.
Values == {10, 20, 30}

\* The longest explicit element sequence the callers build.
MaxLen == 3

\* TVec::new
TVecNew == [pad |-> 0, fill |-> 10, elems |-> << >>]

\* tvec![fill; n] for n = pad * 2^32
TVecFilled(pad, fill) == [pad |-> pad, fill |-> fill, elems |-> << >>]

\* Vec::len / TSlice::len
VecLen(v) == Wide(v.pad, Len(v.elems))

\* [T]::get(usize) on the inner slice
RawGet(v, w) ==
    IF ~WLt(w, VecLen(v)) THEN None
    ELSE IF ULt(w[1], v.pad) THEN Some(v.fill)
    ELSE Some(v.elems[w[2] + 1])

\* TSlice::get(idx)
TSlice_get(I, v, idx) == RawGet(v, as_index_of(I, idx))

\* TVec::push: the vector afterwards and the returned index.
push(I, v, item) ==
    LET idx == VecLen(v)
    IN  [vec |-> [v EXCEPT !.elems = Append(@, item)],
         ret |-> from_index_of(I, idx)]

\* The range shapes TSliceIndex is implemented for.  A shape value is the
\* record [kind, start, end, exhausted]; a field its kind does not have is
\* zero or FALSE.  exhausted is the flag a RangeInclusive carries once it
\* has been iterated to its end.
ShapeKinds ==
    {"index", "range", "from", "full", "inclusive", "to", "to_inclusive"}

Shape(kind, start, end, exhausted) ==
    [kind |-> kind, start |-> start, end |-> end, exhausted |-> exhausted]

\* Variant: RangeToInclusive is handed on as RangeTo.
translate_to(I, s) ==
    Shape(IF s.kind = "to_inclusive" THEN "to" ELSE s.kind,
          as_index_of(I, s.start), as_index_of(I, s.end), FALSE)

\* The raw shape each TSliceIndex impl hands to the inner slice: same kind,
\* bounds converted with as_index.  range_inclusive rebuilds the range with
\* RangeInclusive::new, so the raw range is never exhausted.
translate(I, s) ==
    Shape(s.kind, as_index_of(I, s.start), as_index_of(I, s.end), FALSE)

\* core::slice::SliceIndex for the range kinds on a slice of length n: the
\* half-open offsets [start, end) selected, and whether they are in bounds.
\* An inclusive end of usize::MAX is out of bounds.
SliceRange(r, n) ==
    LET Zero == Wide(0, 0)
        Out == [ok |-> FALSE, start |-> Zero, end |-> Zero]
    IN  CASE r.kind = "range" ->
                 [ok |-> WLe(r.start, r.end) /\ WLe(r.end, n),
                  start |-> r.start, end |-> r.end]
          [] r.kind = "from" ->
                 [ok |-> WLe(r.start, n), start |-> r.start, end |-> n]
          [] r.kind = "to" ->
                 [ok |-> WLe(r.end, n), start |-> Zero, end |-> r.end]
          [] r.kind = "full" ->
                 [ok |-> TRUE, start |-> Zero, end |-> n]
          [] r.kind = "inclusive" ->
                 IF r.end = USIZE_MAX THEN Out
                 ELSE LET x == WInc(r.end)
                          st == IF r.exhausted THEN x ELSE r.start
                      IN  [ok |-> WLe(st, x) /\ WLe(x, n),
                           start |-> st, end |-> x]
          [] r.kind = "to_inclusive" ->
                 IF r.end = USIZE_MAX THEN Out
                 ELSE [ok |-> WLe(WInc(r.end), n),
                       start |-> Zero, end |-> WInc(r.end)]

\* [T]::get(raw shape) on the inner slice of a vector without filled
\* blocks: the element for a single index, the sub-slice for a range.
StdGet(v, r) ==
    IF r.kind = "index" THEN RawGet(v, r.start)
    ELSE LET b == SliceRange(r, VecLen(v))
         IN  IF b.ok THEN Some(SubSeq(v.elems, b.start[2] + 1, b.end[2]))
             ELSE None

\* inner[raw shape]: panics where get returns None.
StdIndex(v, r) ==
    [panic |-> StdGet(v, r) = None, val |-> StdGet(v, r)]

\* TSliceIndex::get, get_mut, index, index_mut
TSliceIndex_get(I, v, s) == StdGet(v, translate(I, s))

TSliceIndex_get_mut(I, v, s) == StdGet(v, translate(I, s))

TSliceIndex_index(I, v, s) == StdIndex(v, translate(I, s))

TSliceIndex_index_mut(I, v, s) == StdIndex(v, translate(I, s))

\* The slice is sorted ascending.
Sorted(v) ==
    /\ \A j \in 1..(Len(v.elems) - 1) : v.elems[j] <= v.elems[j + 1]
    /\ (v.pad > 0 /\ v.elems # << >>) => v.fill <= v.elems[1]

\* [T]::binary_search(x) on the sorted inner slice: Ok with the offset of
\* any element equal to x, else Err with the offset where x could be
\* inserted keeping the order.  Of the offsets inside a filled block the
\* first two and the last stand for all.
StdBinarySearch(v, x) ==
    LET InFill == IF v.pad > 0 /\ v.fill = x
                  THEN {Wide(0, 0), Wide(0, 1), Wide(v.pad - 1, WordMax)}
                  ELSE {}
        InElems == {Wide(v.pad, j - 1) : j \in {k \in 1..Len(v.elems) : v.elems[k] = x}}
        Below == Cardinality({k \in 1..Len(v.elems) : v.elems[k] < x})
    IN  IF InFill \cup InElems # {}
        THEN {[ok |-> TRUE, idx |-> w] : w \in InFill \cup InElems}
        ELSE IF v.pad > 0 /\ x < v.fill
             THEN {[ok |-> FALSE, idx |-> Wide(0, 0)]}
             ELSE {[ok |-> FALSE, idx |-> Wide(v.pad, Below)]}

\* TSlice::binary_search: .map(I::from_index).map_err(I::from_index) on the
\* result of the inner slice.
binary_search(I, v, x) ==
    {[ok |-> r.ok, idx |-> from_index_of(I, r.idx)] : r \in StdBinarySearch(v, x)}

\* Variant: the tail is cloned out and self is not truncated.
split_off_keep(I, v, at) ==
    LET a == as_index_of(I, at)
    IN  IF WLt(VecLen(v), a)
        THEN [panic |-> TRUE, vec |-> v, ret |-> TVecNew]
        ELSE [panic |-> FALSE,
              vec |-> v,
              ret |-> [pad |-> 0, fill |-> v.fill,
                       elems |-> SubSeq(v.elems, a[2] + 1, Len(v.elems))]]

\* TVec::split_off, for a split point at or after the filled blocks:
\* Vec::split_off panics if at > len, else truncates self to at elements and
\* returns the rest.
split_off(I, v, at) ==
    LET a == as_index_of(I, at)
    IN  IF WLt(VecLen(v), a)
        THEN [panic |-> TRUE, vec |-> v, ret |-> TVecNew]
        ELSE [panic |-> FALSE,
              vec |-> [v EXCEPT !.elems = SubSeq(@, 1, a[2])],
              ret |-> [pad |-> 0, fill |-> v.fill,
                       elems |-> SubSeq(v.elems, a[2] + 1, Len(v.elems))]]

\* TVec::append, for an other without filled blocks: other's elements move
\* to the end of self.
append(self, oth) ==
    [vec |-> [self EXCEPT !.elems = @ \o oth.elems],
     other |-> [oth EXCEPT !.elems = << >>]]

\* Vec::swap(a, b) on the element sequence, 0-based.
Swap(e, a, b) == [e EXCEPT ![a + 1] = e[b + 1], ![b + 1] = e[a + 1]]

\* The for loop of TVec::retain from position i: decide[k] is what the k-th
\* call of f returns; calls lists the positions f was called on, swaps the
\* pairs handed to v.swap.
RECURSIVE RetainLoop(_, _, _, _, _, _, _)
RetainLoop(e, i, del, len, decide, calls, swaps) ==
    IF i >= len
    THEN [elems |-> e, del |-> del, calls |-> calls, swaps |-> swaps]
    ELSE IF ~decide[Len(calls) + 1]
         THEN RetainLoop(e, i + 1, del + 1, len, decide,
                         Append(calls, i), swaps)
         ELSE IF del > 0
              THEN RetainLoop(Swap(e, i - del, i), i + 1, del, len, decide,
                              Append(calls, i), Append(swaps, << i - del, i >>))
              ELSE RetainLoop(e, i + 1, del, len, decide,
                              Append(calls, i), swaps)

\* Variant: the kept element is not swapped down.
retain_noswap(v, decide) ==
    LET len == Len(v.elems)
        del == Cardinality({k \in 1..len : ~decide[k]})
    IN  [vec |-> [v EXCEPT !.elems = SubSeq(@, 1, len - del)],
         calls |-> [k \in 1..len |-> k - 1],
         swaps |-> << >>]

\* TVec::retain, for a vector without filled blocks.
retain(v, decide) ==
    LET len == Len(v.elems)
        r == RetainLoop(v.elems, 0, 0, len, decide, << >>, << >>)
    IN  [vec |-> [v EXCEPT !.elems =
                      IF r.del > 0 THEN SubSeq(r.elems, 1, len - r.del)
                      ELSE r.elems],
         calls |-> r.calls,
         swaps |-> r.swaps]

-----------------------------------------------------------------------------
(* The state machine: a caller owning two sets and at most one enumerator. *)

VARIABLES
    inner,    \* self.inner of the set under test: the Vec of frames
    other,    \* the frames of a second set (a clone of an earlier self)
    refset,   \* reference mathematical set, updated alongside inner
    refother, \* reference mathematical set of other
    last,     \* the most recent call: its name, arguments, self before it, result
    it,       \* the enumerator borrowed from self, if any
    tvI,      \* the index type I of the TVec<I, T> under test
    tvec,     \* the TVec under test
    ttail,    \* a second TVec: the tail a split_off returned
    tsnap,    \* the elements the TVec held before its latest split_off
    tlast     \* the most recent TVec / TSlice call

\* The variables of the bit set and of the typed vector.
bvars == << inner, other, refset, refother, last, it >>

tvars == << tvI, tvec, ttail, tsnap, tlast >>

vars == << inner, other, refset, refother, last, it,
           tvI, tvec, ttail, tsnap, tlast >>

\* The lowest and the highest index handed to add.
EdgeIdx == {0, MaxFrames * FRAME_SIZE - 1}

\* Inputs of extend: the empty iterator and pairs of indices, in either
\* order, repeated or not, growing the set at the first or the second item.
ExtendInputs == {<< >>} \cup {<< i, j >> : i \in GrowIdx, j \in EdgeIdx}

Call(op, idx, value, items, pre, ret) ==
    [op |-> op, idx |-> idx, value |-> value, items |-> items,
     pre |-> pre, ret |-> ret]

NoCall == Call("new", 0, FALSE, << >>, << >>, None)

NoIter ==
    [live |-> FALSE, pos |-> 0, end_pos |-> 0, out |-> << >>, ret |-> None,
     afterNone |-> FALSE, prior |-> FALSE]

\* A call on the typed vector: its name, item argument, index argument, the
\* vector and the second vector before it, and what it returned.
TCall(op, item, idx, pre, pre2, ret) ==
    [op |-> op, item |-> item, idx |-> idx, pre |-> pre, pre2 |-> pre2,
     ret |-> ret]

NoTCall == TCall("new", 0, Wide(0, 0), TVecNew, TVecNew, None)

\* No split_off is pending.
NoSnap == [ok |-> FALSE, vec |-> TVecNew]

RECURSIVE ToSet(_)
ToSet(items) ==
    IF items = << >> THEN {} ELSE {Head(items)} \cup ToSet(Tail(items))

Init ==
    /\ inner = new
    /\ other = new
    /\ refset = {}
    /\ refother = {}
    /\ last = NoCall
    /\ it = NoIter
    /\ tvI = "usize"
    /\ tvec = TVecNew
    /\ ttail = TVecNew
    /\ tsnap = NoSnap
    /\ tlast = NoTCall

\* Mutating calls need exclusive access: no enumerator borrows self.
Add ==
    \E i \in GrowIdx :
        /\ ~it.live
        /\ inner' = add(inner, i)
        /\ refset' = refset \cup {i}
        /\ last' = Call("add", i, TRUE, << >>, inner, None)
        /\ UNCHANGED << other, refother, it >>
        /\ UNCHANGED tvars

Set ==
    \E i \in AnyIdx, b \in BOOLEAN :
        /\ ~it.live
        /\ b => i \in GrowIdx
        /\ inner' = set(inner, i, b)
        /\ refset' = IF b THEN refset \cup {i} ELSE refset \ {i}
        /\ last' = Call("set", i, b, << >>, inner, None)
        /\ UNCHANGED << other, refother, it >>
        /\ UNCHANGED tvars

Remove ==
    \E i \in AnyIdx :
        /\ ~it.live
        /\ inner' = remove(inner, i)
        /\ refset' = refset \ {i}
        /\ last' = Call("remove", i, FALSE, << >>, inner, None)
        /\ UNCHANGED << other, refother, it >>
        /\ UNCHANGED tvars

Flip ==
    \E i \in GrowIdx :
        /\ ~it.live
        /\ inner' = flip(inner, i)
        /\ refset' = IF i \in refset THEN refset \ {i} ELSE refset \cup {i}
        /\ last' = Call("flip", i, FALSE, << >>, inner, None)
        /\ UNCHANGED << other, refother, it >>
        /\ UNCHANGED tvars

Extend ==
    \E items \in ExtendInputs :
        /\ ~it.live
        /\ inner' = extend(inner, items)
        /\ refset' = refset \cup ToSet(items)
        /\ last' = Call("extend", 0, FALSE, items, inner, None)
        /\ UNCHANGED << other, refother, it >>
        /\ UNCHANGED tvars

Clear ==
    /\ ~it.live
    /\ inner' = clear(inner)
    /\ refset' = {}
    /\ last' = Call("clear", 0, FALSE, << >>, inner, None)
    /\ UNCHANGED << other, refother, it >>
    /\ UNCHANGED tvars

ShrinkToFit ==
    /\ ~it.live
    /\ inner' = shrink_to_fit(inner)
    /\ last' = Call("shrink_to_fit", 0, FALSE, << >>, inner, None)
    /\ UNCHANGED << other, refset, refother, it >>
    /\ UNCHANGED tvars

\* The caller reads the set between enumerations.
Get ==
    \E i \in AnyIdx :
        /\ ~it.live
        /\ last' = Call("get", i, FALSE, << >>, inner, get(inner, i))
        /\ UNCHANGED << inner, other, refset, refother, it >>
        /\ UNCHANGED tvars

ElementCount ==
    /\ ~it.live
    /\ last' = Call("element_count", 0, FALSE, << >>, inner, element_count(inner))
    /\ UNCHANGED << inner, other, refset, refother, it >>
    /\ UNCHANGED tvars

IsEmpty ==
    /\ ~it.live
    /\ last' = Call("is_empty", 0, FALSE, << >>, inner, is_empty(inner))
    /\ UNCHANGED << inner, other, refset, refother, it >>
    /\ UNCHANGED tvars

Clone ==
    /\ ~it.live
    /\ other' = clone(inner)
    /\ refother' = refset
    /\ last' = Call("clone", 0, FALSE, << >>, inner, None)
    /\ UNCHANGED << inner, refset, it >>
    /\ UNCHANGED tvars

Eq ==
    /\ ~it.live
    /\ last' = Call("eq", 0, FALSE, << >>, inner, eq(inner, other))
    /\ UNCHANGED << inner, other, refset, refother, it >>
    /\ UNCHANGED tvars

Contains ==
    /\ ~it.live
    /\ last' = Call("contains", 0, FALSE, << >>, inner, contains(inner, other))
    /\ UNCHANGED << inner, other, refset, refother, it >>
    /\ UNCHANGED tvars

Union ==
    /\ ~it.live
    /\ last' = Call("union", 0, FALSE, << >>, inner, union(inner, other))
    /\ UNCHANGED << inner, other, refset, refother, it >>
    /\ UNCHANGED tvars

Hash ==
    /\ ~it.live
    /\ last' = Call("hash", 0, FALSE, << >>, inner, hash(inner))
    /\ UNCHANGED << inner, other, refset, refother, it >>
    /\ UNCHANGED tvars

\* self.iter(): a fresh enumerator; an earlier one is dropped.
Iter ==
    /\ it' = [live |-> TRUE, pos |-> iter(inner).pos,
              end_pos |-> iter(inner).end_pos, out |-> << >>, ret |-> None,
              afterNone |-> FALSE,
              prior |-> it.live /\ (it.prior \/ it.out # << >>)]
    /\ last' = Call("iter", 0, FALSE, << >>, inner, None)
    /\ UNCHANGED << inner, other, refset, refother >>
    /\ UNCHANGED tvars

\* One pull: the cursors move, the returned index (if any) is appended to
\* out with the end it was pulled from.
Pulled(r, end) ==
    [live |-> TRUE, pos |-> r.pos, end_pos |-> r.end_pos,
     out |-> IF r.ret = None THEN it.out
             ELSE Append(it.out, [end |-> end, idx |-> r.ret[1]]),
     ret |-> r.ret,
     afterNone |-> it.afterNone \/ (it.ret = None /\ last.op \in {"next", "next_back"}),
     prior |-> it.prior]

IterNext ==
    /\ it.live
    /\ it' = Pulled(next(inner, it), "front")
    /\ last' = Call("next", 0, FALSE, << >>, inner, next(inner, it).ret)
    /\ UNCHANGED << inner, other, refset, refother >>
    /\ UNCHANGED tvars

IterNextBack ==
    /\ it.live
    /\ it' = Pulled(next_back(inner, it), "back")
    /\ last' = Call("next_back", 0, FALSE, << >>, inner, next_back(inner, it).ret)
    /\ UNCHANGED << inner, other, refset, refother >>
    /\ UNCHANGED tvars

\* The enumerator goes out of scope.
DropIter ==
    /\ it.live
    /\ it' = NoIter
    /\ last' = Call("drop", 0, FALSE, << >>, inner, None)
    /\ UNCHANGED << inner, other, refset, refother >>
    /\ UNCHANGED tvars

\* A caller working on one set: every call, and clone never taken, so
\* other stays the empty set.
Next ==
    \/ Add
    \/ Set
    \/ Remove
    \/ Flip
    \/ Extend
    \/ Clear
    \/ ShrinkToFit
    \/ Get
    \/ ElementCount
    \/ IsEmpty
    \/ Eq
    \/ Contains
    \/ Union
    \/ Iter
    \/ IterNext
    \/ IterNextBack
    \/ DropIter

Spec == Init /\ [][Next]_vars

\* A caller working on two sets: self is built by add / remove / clear /
\* shrink_to_fit, other is a clone of self taken at any time.
NextPair ==
    \/ Add
    \/ Remove
    \/ Clear
    \/ ShrinkToFit
    \/ Clone
    \/ Eq
    \/ Contains
    \/ Union

SpecPair == Init /\ [][NextPair]_vars

\* A caller hashing a set it builds by flip / shrink_to_fit and a clone of
\* it taken at any time.
NextHash ==
    \/ Flip
    \/ ShrinkToFit
    \/ Clone
    \/ Hash

SpecHash == Init /\ [][NextHash]_vars

-----------------------------------------------------------------------------
(* The state machine of a caller owning a TVec<I, T>.                      *)

\* The index type is usize or u32; the vector starts empty or as
\* tvec![fill; n] with n = 2^32.
InitVec ==
    /\ inner = new
    /\ other = new
    /\ refset = {}
    /\ refother = {}
    /\ last = NoCall
    /\ it = NoIter
    /\ tvI \in IndexTypes
    /\ tvec \in {TVecNew} \cup {TVecFilled(1, f) : f \in Values}
    /\ ttail = TVecNew
    /\ tsnap = NoSnap
    /\ tlast = NoTCall

Push ==
    \E x \in Values :
        /\ Len(tvec.elems) + Len(ttail.elems) < MaxLen
        /\ tvec' = push(tvI, tvec, x).vec
        /\ tlast' = TCall("push", x, Wide(0, 0), tvec, ttail,
                          push(tvI, tvec, x).ret)
        /\ tsnap' = NoSnap
        /\ UNCHANGED << tvI, ttail >>
        /\ UNCHANGED bvars

\* Indices a caller holds: offsets up to one past the explicit elements, as
\* values of the index type.
HeldIdx == {Wide(0, l) : l \in 0..(MaxLen + 1)}

TGet ==
    \E i \in HeldIdx :
        /\ tlast' = TCall("get", 0, i, tvec, ttail, TSlice_get(tvI, tvec, i))
        /\ UNCHANGED << tvI, tvec, ttail, tsnap >>
        /\ UNCHANGED bvars

\* Split points: every offset up to one past the explicit elements, at or
\* after the filled blocks where the index type reaches that far.
SplitIdx ==
    {Wide(h, l) : h \in (IF tvI = "usize" THEN {tvec.pad} ELSE {0}),
                  l \in 0..(MaxLen + 1)}

SplitOff ==
    \E at \in SplitIdx :
        /\ as_index_of(tvI, at)[1] = tvec.pad
        /\ tvec' = split_off(tvI, tvec, at).vec
        /\ ttail' = IF split_off(tvI, tvec, at).panic THEN ttail
                     ELSE split_off(tvI, tvec, at).ret
        /\ tsnap' = IF split_off(tvI, tvec, at).panic THEN tsnap
                     ELSE [ok |-> TRUE, vec |-> tvec]
        /\ tlast' = TCall("split_off", 0, at, tvec, ttail,
                          split_off(tvI, tvec, at).panic)
        /\ UNCHANGED tvI
        /\ UNCHANGED bvars

AppendTail ==
    /\ tvec' = append(tvec, ttail).vec
    /\ ttail' = append(tvec, ttail).other
    /\ tlast' = TCall("append", 0, Wide(0, 0), tvec, ttail, None)
    /\ UNCHANGED << tvI, tsnap >>
    /\ UNCHANGED bvars

\* f is any FnMut: what it returns at each call is an arbitrary sequence of
\* booleans.
Retain ==
    \E decide \in [1..Len(tvec.elems) -> BOOLEAN] :
        /\ tvec.pad = 0
        /\ tvec' = retain(tvec, decide).vec
        /\ tlast' = TCall("retain", decide, Wide(0, 0), tvec, ttail,
                          [calls |-> retain(tvec, decide).calls,
                           swaps |-> retain(tvec, decide).swaps])
        /\ tsnap' = NoSnap
        /\ UNCHANGED << tvI, ttail >>
        /\ UNCHANGED bvars

\* Bounds a caller may put into a range: small offsets up to past the end,
\* u32::MAX, and for usize also 2^32 and usize::MAX.
BoundsOf(I) ==
    {Wide(0, l) : l \in 0..(MaxLen + 1)} \cup {Wide(0, WordMax)}
        \cup (IF I = "usize" THEN {Wide(1, 0), USIZE_MAX} ELSE {})

ShapesOf(I) ==
    {Shape(k, a, Wide(0, 0), FALSE) : k \in {"index", "from"}, a \in BoundsOf(I)}
        \cup {Shape(k, Wide(0, 0), b, FALSE) :
                 k \in {"to", "to_inclusive"}, b \in BoundsOf(I)}
        \cup {Shape("range", a, b, FALSE) : a \in BoundsOf(I), b \in BoundsOf(I)}
        \cup {Shape("inclusive", a, b, FALSE) :
                 a \in BoundsOf(I), b \in BoundsOf(I)}
        \cup {Shape("inclusive", a, a, TRUE) : a \in BoundsOf(I)}
        \cup {Shape("full", Wide(0, 0), Wide(0, 0), FALSE)}

\* The operations that only read the slice.
Reads == {"slice_index", "binary_search"}

\* One shape used with all four operations on the same slice.  A read leaves
\* the slice as it was, so a read after a read reaches nothing a first read
\* does not: reads are taken from the states the writes leave.
SliceAccess ==
    \E s \in ShapesOf(tvI) :
        /\ tvec.pad = 0
        /\ tlast.op \notin Reads
        /\ tlast' = TCall("slice_index", s, Wide(0, 0), tvec, ttail,
                          [get |-> TSliceIndex_get(tvI, tvec, s),
                           get_mut |-> TSliceIndex_get_mut(tvI, tvec, s),
                           index |-> TSliceIndex_index(tvI, tvec, s),
                           index_mut |-> TSliceIndex_index_mut(tvI, tvec, s)])
        /\ UNCHANGED << tvI, tvec, ttail, tsnap >>
        /\ UNCHANGED bvars

NextVec ==
    \/ Push
    \/ TGet
    \/ SplitOff
    \/ AppendTail
    \/ Retain

SpecVec == InitVec /\ [][NextVec]_vars

\* Values searched for: the element values and one between two of them.
Keys == Values \cup {25}

BinarySearch ==
    \E x \in Keys :
        \E r \in binary_search(tvI, tvec, x) :
            /\ Sorted(tvec)
            /\ tlast.op \notin Reads
            /\ tlast' = TCall("binary_search", x, Wide(0, 0), tvec, ttail, r)
            /\ UNCHANGED << tvI, tvec, ttail, tsnap >>
            /\ UNCHANGED bvars

\* Callers that build a vector and read it as a slice.
NextSlice ==
    \/ Push
    \/ SliceAccess
    \/ BinarySearch

SpecSlice == InitVec /\ [][NextSlice]_vars

-----------------------------------------------------------------------------
(* Properties of TBitSet membership and storage.                           *)

\* Every position of the enumerated frames, one frame beyond, and a far one.
ProbeIdx == 0..((MaxFrames + 1) * FRAME_SIZE) \cup {FarIdx}

\* Membership of every probed index other than idx is the same in v and w.
SameExcept(v, w, idx) ==
    \A i \in ProbeIdx \ {idx} : get(v, i) = get(w, i)

\* C1: after any sequence of add, set, remove, flip, extend, clear and
\* shrink_to_fit from the empty set, get(i) equals membership of i in the
\* reference set updated by the same calls, for every index i.
C1_GetMatchesReference ==
    \A i \in ProbeIdx : get(inner, i) = (i \in refset)

\* C1 witness: a member was removed while another member stayed, after the
\* storage had grown to its full length.
C1_Witness ==
    /\ last.op = "remove"
    /\ get(last.pre, last.idx)
    /\ ~get(inner, last.idx)
    /\ refset # {}
    /\ Len(inner) = MaxFrames

\* C3 as claimed: the frame count decreases in a step only if the step is
\* shrink_to_fit.
C3_OnlyShrinkDecreases ==
    [][Len(inner') < Len(inner) => last'.op = "shrink_to_fit"]_vars

\* C3 amended: the frame count decreases in a step only if the step is
\* shrink_to_fit or clear.
C3_OnlyShrinkOrClearDecreases ==
    [][Len(inner') < Len(inner) => last'.op \in {"shrink_to_fit", "clear"}]_vars

\* C3 witness: shrink_to_fit has lowered the frame count of a set that still
\* has members.
C3_Witness ==
    /\ last.op = "shrink_to_fit"
    /\ Len(inner) < Len(last.pre)
    /\ refset # {}

\* C2: a == b holds iff a and b have the same members, whatever their frame
\* counts; so a set equals itself trimmed, equals itself with trailing zero
\* frames appended, and a == b iff b == a.
C2_EqIsSameMembers ==
    /\ eq(inner, other) <=> (refset = refother)
    /\ eq(other, inner) <=> eq(inner, other)
    /\ eq(inner, shrink_to_fit(inner))
    /\ eq(shrink_to_fit(inner), inner)
    /\ \A n \in 1..MaxFrames :
           /\ eq(inner, Resize(inner, Len(inner) + n, {}))
           /\ eq(Resize(inner, Len(inner) + n, {}), inner)

\* C2 witness: == was called on two sets of different frame counts with the
\* same, non-empty, members and returned true.
C2_Witness ==
    /\ last.op = "eq"
    /\ last.ret = TRUE
    /\ Len(inner) # Len(other)
    /\ refset = refother
    /\ refset # {}

\* The frame holding idx in v is beyond the frames of v.
Beyond(v, idx) == idx \div FRAME_SIZE >= Len(v)

\* The last call was add, set(_, true) or flip.
LastGrows ==
    \/ last.op \in {"add", "flip"}
    \/ last.op = "set" /\ last.value

\* C4: add(i), set(i, true) and flip(i) on a set of n frames leave exactly
\* max(n, i / 64 + 1) frames, every new frame is zero except possibly for the
\* target bit, and the membership of every other index is unchanged.
C4_GrowExactly ==
    LastGrows =>
        /\ Len(inner) = Max(Len(last.pre), last.idx \div FRAME_SIZE + 1)
        /\ \A k \in (Len(last.pre) + 1)..Len(inner) :
               inner[k] \subseteq
                   (IF k - 1 = last.idx \div FRAME_SIZE
                    THEN {last.idx % FRAME_SIZE}
                    ELSE {})
        /\ SameExcept(inner, last.pre, last.idx)

\* C4 witness: flip grew a set that had a member by a frame and set the
\* target bit in the new frame.
C4_Witness ==
    /\ last.op = "flip"
    /\ Len(last.pre) >= 1
    /\ last.pre[1] # {}
    /\ Len(inner) > Len(last.pre)
    /\ get(inner, last.idx)

\* The last call was remove or set(_, false).
LastClears ==
    \/ last.op = "remove"
    \/ last.op = "set" /\ ~last.value

\* C5: remove(i), set(i, false) and get(i) never change the frame count; with
\* i beyond the frames, remove / set(false) leave every frame unchanged and
\* get returns false; with i inside, only bit i is cleared.
C5_RemoveNeverResizes ==
    /\ (LastClears \/ last.op = "get") => Len(inner) = Len(last.pre)
    /\ (LastClears /\ Beyond(last.pre, last.idx)) => inner = last.pre
    /\ (last.op = "get" /\ Beyond(last.pre, last.idx)) =>
           (last.ret = FALSE /\ inner = last.pre)
    /\ (LastClears /\ ~Beyond(last.pre, last.idx)) =>
           /\ ~get(inner, last.idx)
           /\ SameExcept(inner, last.pre, last.idx)

\* C5 witness: remove cleared the only bit of the last frame of a set of
\* several frames, and the now all-zero frame is still there.
C5_Witness ==
    /\ last.op = "remove"
    /\ get(last.pre, last.idx)
    /\ Len(inner) > 1
    /\ inner[Len(inner)] = {}
    /\ refset # {}

\* The greatest member of a non-empty reference set.
MaxMember(S) == CHOOSE m \in S : \A x \in S : x <= m

\* C6: after shrink_to_fit the frame count is 0 for a set without members and
\* otherwise m / 64 + 1 for the largest member m (so the last frame is
\* non-zero), no membership has changed, and a second call changes nothing.
C6_ShrinkIsMinimal ==
    last.op = "shrink_to_fit" =>
        /\ Len(inner) =
               (IF refset = {} THEN 0
                ELSE MaxMember(refset) \div FRAME_SIZE + 1)
        /\ (Len(inner) > 0 => inner[Len(inner)] # {})
        /\ \A i \in ProbeIdx : get(inner, i) = get(last.pre, i)
        /\ shrink_to_fit(inner) = inner

\* C6 witness: shrink_to_fit popped trailing zero frames off a set that
\* still has members.
C6_Witness ==
    /\ last.op = "shrink_to_fit"
    /\ Len(last.pre) > Len(inner)
    /\ Len(inner) > 0
    /\ element_count(inner) > 0

-----------------------------------------------------------------------------
(* Properties of enumeration.                                              *)

\* The members of a reference set in ascending order.
RECURSIVE Asc(_)
Asc(S) ==
    IF S = {} THEN << >>
    ELSE LET m == CHOOSE x \in S : \A y \in S : x <= y
         IN  << m >> \o Asc(S \ {m})

\* A sequence reversed.
Reverse(q) == [k \in 1..Len(q) |-> q[Len(q) + 1 - k]]

\* The members of a reference set in descending order.
Desc(S) == Reverse(Asc(S))

\* The indices returned by calling next on cursors c until it returns None.
RECURSIVE DrainFront(_, _)
DrainFront(self, c) ==
    LET r == next(self, c)
    IN  IF r.ret = None THEN << >>
        ELSE << r.ret[1] >> \o DrainFront(self, r)

\* The indices returned by calling next_back on cursors c until it returns
\* None.
RECURSIVE DrainBack(_, _)
DrainBack(self, c) ==
    LET r == next_back(self, c)
    IN  IF r.ret = None THEN << >>
        ELSE << r.ret[1] >> \o DrainBack(self, r)

\* The indices the live enumerator has returned, in the order returned.
OutIdx == [k \in 1..Len(it.out) |-> it.out[k].idx]

\* Every index the live enumerator has returned came from the given end.
AllFrom(end) == \A k \in 1..Len(it.out) : it.out[k].end = end

\* The last call on the live enumerator returned None.
Exhausted ==
    /\ it.live
    /\ last.op \in {"next", "next_back"}
    /\ it.ret = None

IsPrefix(p, q) == Len(p) <= Len(q) /\ SubSeq(q, 1, Len(p)) = p

\* C7: for every reachable set, a fresh forward enumeration yields exactly
\* the members in strictly ascending order and a fresh backward enumeration
\* yields them in strictly descending order, also when an earlier enumerator
\* of the set was used before; an enumerator pulled from one end only has
\* returned a prefix of that order, and all of it once it returns None.
C7_EnumerationInOrder ==
    /\ DrainFront(inner, iter(inner)) = Asc(refset)
    /\ DrainBack(inner, iter(inner)) = Desc(refset)
    /\ (it.live /\ AllFrom("front")) =>
           /\ IsPrefix(OutIdx, Asc(refset))
           /\ (Exhausted /\ last.op = "next") => OutIdx = Asc(refset)
    /\ (it.live /\ AllFrom("back")) =>
           /\ IsPrefix(OutIdx, Desc(refset))
           /\ (Exhausted /\ last.op = "next_back") => OutIdx = Desc(refset)

\* C7 witness: a second enumerator of a set with a trailing all-zero frame,
\* taken after an earlier one had returned indices, was pulled from the back
\* until None and has returned several members.
C7_Witness ==
    /\ Exhausted
    /\ last.op = "next_back"
    /\ it.prior
    /\ AllFrom("back")
    /\ Len(it.out) >= 2
    /\ inner[Len(inner)] = {}

\* C8: under any interleaving of next and next_back on one enumerator no
\* index is returned twice and only members are returned; once a call has
\* returned None the indices returned are exactly the members; and after a
\* None every later call returns None.
C8_InterleavingExact ==
    it.live =>
        /\ \A j, k \in 1..Len(it.out) : it.out[j].idx = it.out[k].idx => j = k
        /\ \A k \in 1..Len(it.out) : it.out[k].idx \in refset
        /\ Exhausted => {it.out[k].idx : k \in 1..Len(it.out)} = refset
        /\ it.afterNone => it.ret = None

\* C8 witness: an enumerator pulled from both ends returned the member next
\* to the back cursor from the front as its last index, then None twice.
C8_Witness ==
    /\ Exhausted
    /\ it.afterNone
    /\ Len(it.out) >= 3
    /\ it.out[Len(it.out)].end = "front"
    /\ \E k \in 1..Len(it.out) :
           /\ it.out[k].end = "back"
           /\ it.out[k].idx = it.out[Len(it.out)].idx + 1

\* C9: element_count equals the number of members, the number of indices a
\* full forward enumeration yields and the number a full backward one
\* yields; trailing zero frames do not change it; is_empty is true iff it
\* is 0.
C9_CountIsCardinality ==
    /\ element_count(inner) = Cardinality(refset)
    /\ Len(DrainFront(inner, iter(inner))) = element_count(inner)
    /\ Len(DrainBack(inner, iter(inner))) = element_count(inner)
    /\ element_count(shrink_to_fit(inner)) = element_count(inner)
    /\ is_empty(inner) <=> (element_count(inner) = 0)
    /\ last.op = "element_count" => last.ret = Cardinality(refset)
    /\ last.op = "is_empty" => last.ret = (refset = {})

\* C9 witness: element_count was called on a set with two members in one
\* frame and a trailing all-zero frame.
C9_Witness ==
    /\ last.op = "element_count"
    /\ last.ret >= 2
    /\ Len(inner) >= 2
    /\ inner[Len(inner)] = {}

\* C10: a.contains(b) is true iff every member of b is a member of a,
\* whichever of the two has more frames; a contains itself and the empty
\* set.
C10_ContainsIsSuperset ==
    /\ contains(inner, other) <=> (refother \subseteq refset)
    /\ contains(other, inner) <=> (refset \subseteq refother)
    /\ contains(inner, inner)
    /\ contains(inner, new)
    /\ last.op = "contains" => last.ret = (refother \subseteq refset)

\* C10 witness: contains returned false only because of a member of other in
\* a frame beyond the frames of self, self not being empty.
C10_Witness ==
    /\ last.op = "contains"
    /\ last.ret = FALSE
    /\ Len(inner) < Len(other)
    /\ refset # {}
    /\ \A i \in refother : ~Beyond(inner, i) => i \in refset

-----------------------------------------------------------------------------
(* Properties of union and hashing.                                        *)

\* C11: a.union(b) has min(frame_count(a), frame_count(b)) frames, each the
\* bitwise AND of the two frames at its position, so its members are exactly
\* the indices that are members of both a and b; a and b are unchanged by
\* the call.
C11_UnionIsBoundedIntersection ==
    /\ [](last.op = "union" =>
              /\ last.ret = union(inner, other)
              /\ Len(last.ret) = Min(Len(inner), Len(other))
              /\ \A k \in 1..Len(last.ret) :
                     last.ret[k] = inner[k] \cap other[k]
              /\ \A i \in ProbeIdx :
                     get(last.ret, i) = (i \in refset \cap refother))
    /\ [][last'.op = "union" => (inner' = inner /\ other' = other)]_vars

\* C11 witness: union was called on two sets of different frame counts, the
\* longer one with a member in the frames the shorter one lacks, and
\* returned a set with a member.
C11_Witness ==
    /\ last.op = "union"
    /\ Len(inner) > Len(other)
    /\ inner[Len(inner)] # {}
    /\ Len(last.ret) = Len(other)
    /\ element_count(last.ret) > 0
    /\ refset # refother

\* C12: two equal sets feed the same sequence of values to the hasher,
\* whatever their frame counts; the sequence is the ascending list of
\* members and does not change with trailing zero frames.
C12_HashFollowsEq ==
    last.op = "hash" =>
        /\ last.ret = hash(inner)
        /\ eq(inner, other) => last.ret = hash(other)
        /\ last.ret = Asc(refset)
        /\ hash(shrink_to_fit(inner)) = last.ret
        /\ hash(Resize(inner, Len(inner) + 1, {})) = last.ret

\* C12 witness: hash was called on a set with members and trailing zero
\* frames that is equal to a set of fewer frames.
C12_Witness ==
    /\ last.op = "hash"
    /\ last.ret # << >>
    /\ eq(inner, other)
    /\ Len(inner) > Len(other)
    /\ last.ret = hash(other)

-----------------------------------------------------------------------------
(* Properties of TVec and TSlice.                                          *)

\* n + 1 on usize, for lo + 1 < 2^32
WSucc(w) == Wide(w[1], w[2] + 1)

\* C13 as claimed: for usize and u32 alike, push(x) on a TVec of length n
\* leaves length n + 1 and the elements at offsets 0..n-1 unchanged, and
\* returns r with as_index(r) = n, get(r) = Some(x) and
\* from_index(as_index(r)) = r.
C13_PushReturnsEnd ==
    tlast.op = "push" =>
        /\ VecLen(tvec) = WSucc(VecLen(tlast.pre))
        /\ tvec.pad = tlast.pre.pad
        /\ tvec.fill = tlast.pre.fill
        /\ SubSeq(tvec.elems, 1, Len(tlast.pre.elems)) = tlast.pre.elems
        /\ as_index_of(tvI, tlast.ret) = VecLen(tlast.pre)
        /\ TSlice_get(tvI, tvec, tlast.ret) = Some(tlast.item)
        /\ from_index_of(tvI, as_index_of(tvI, tlast.ret)) = tlast.ret

\* C14: split_off(k) with as_index(k) <= len truncates the vector to its
\* first k elements and returns the rest in order; append of that tail
\* restores the vector exactly and leaves the tail empty.
C14_SplitOffAppendInverse ==
    /\ (tlast.op = "split_off" /\ ~tlast.ret) =>
           /\ tvec.pad = tlast.pre.pad
           /\ Len(tvec.elems) = as_index_of(tvI, tlast.idx)[2]
           /\ tvec.elems = SubSeq(tlast.pre.elems, 1, Len(tvec.elems))
           /\ ttail.pad = 0
           /\ tvec.elems \o ttail.elems = tlast.pre.elems
    /\ (tlast.op = "split_off") =>
           (tlast.ret <=> WLt(VecLen(tlast.pre), as_index_of(tvI, tlast.idx)))
    /\ tlast.op = "append" =>
           /\ tvec.elems = tlast.pre.elems \o tlast.pre2.elems
           /\ tvec.pad = tlast.pre.pad
           /\ ttail.elems = << >>
    /\ (tlast.op = "append" /\ tsnap.ok) =>
           /\ tvec.pad = tsnap.vec.pad
           /\ tvec.elems = tsnap.vec.elems

\* C14 witness: a vector of three elements was split after its first
\* element and the tail of two was appended back.
C14_Witness ==
    /\ tlast.op = "append"
    /\ tsnap.ok
    /\ Len(tlast.pre.elems) = 1
    /\ Len(tlast.pre2.elems) = 2
    /\ tlast.pre2.elems[1] # tlast.pre2.elems[2]

\* The elements of e that f, returning decide[k] at its k-th call, kept.
RECURSIVE KeptFrom(_, _, _)
KeptFrom(e, decide, k) ==
    IF k > Len(e) THEN << >>
    ELSE (IF decide[k] THEN << e[k] >> ELSE << >>) \o KeptFrom(e, decide, k + 1)

\* C17: retain(f) calls f once on each element in offset order 0..n-1 and
\* leaves exactly the elements f returned true for, in their original
\* order; every index handed to swap lies within 0..n-1.
C17_RetainKeepsInOrder ==
    tlast.op = "retain" =>
        LET n == Len(tlast.pre.elems)
        IN  /\ tlast.ret.calls = [k \in 1..n |-> k - 1]
            /\ tvec.elems = KeptFrom(tlast.pre.elems, tlast.item, 1)
            /\ Len(tvec.elems) = Cardinality({k \in 1..n : tlast.item[k]})
            /\ \A j \in 1..Len(tlast.ret.swaps) :
                   /\ tlast.ret.swaps[j][1] \in 0..(n - 1)
                   /\ tlast.ret.swaps[j][2] \in 0..(n - 1)
                   /\ tlast.ret.swaps[j][1] < tlast.ret.swaps[j][2]

\* C17 witness: retain dropped the first of three elements and swapped the
\* two kept, different, elements down.
C17_Witness ==
    /\ tlast.op = "retain"
    /\ Len(tlast.pre.elems) = 3
    /\ Len(tlast.ret.swaps) = 2
    /\ Len(tvec.elems) = 2
    /\ tvec.elems[1] # tvec.elems[2]

\* The half-open raw offsets [start, end) a shape s names on a slice of
\* length n, and whether they are invalid for that length: index >= n,
\* end > n or start > end.
ShapeStart(s) ==
    IF s.kind \in {"index", "range", "from", "inclusive"} THEN s.start
    ELSE Wide(0, 0)

EndsPastLen(s, n) ==
    CASE s.kind = "index" -> ~WLt(s.start, n)
      [] s.kind \in {"range", "to"} -> WLt(n, s.end)
      [] s.kind \in {"inclusive", "to_inclusive"} -> ~WLt(s.end, n)
      [] s.kind \in {"from", "full"} -> FALSE

ShapeEnd(s, n) ==
    CASE s.kind = "index" -> WInc(s.start)
      [] s.kind \in {"inclusive", "to_inclusive"} -> WInc(s.end)
      [] s.kind \in {"range", "to"} -> s.end
      [] s.kind \in {"from", "full"} -> n

ShapeInvalid(s, n) ==
    \/ EndsPastLen(s, n)
    \/ (s.kind # "index" /\ WLt(ShapeEnd(s, n), ShapeStart(s)))

\* C15: for every range shape on a slice of length n, get and get_mut
\* return None exactly when the shape's raw bounds are invalid for n, index
\* and index_mut fail fatally in exactly those cases, and otherwise all four
\* give the same result: the element at the index, or the view whose
\* element at offset j is the slice's element at offset start + j.
C15_RangeShapesChecked ==
    tlast.op = "slice_index" =>
        LET s == tlast.item
            r == tlast.ret
            e == tlast.pre.elems
            n == VecLen(tlast.pre)
            bad == ShapeInvalid(s, n)
            st == ShapeStart(s)[2]
        IN  /\ (r.get = None) <=> bad
            /\ r.get_mut = r.get
            /\ r.index.panic <=> bad
            /\ r.index_mut = r.index
            /\ ~bad =>
                   /\ r.index.val = r.get
                   /\ Len(r.get) = 1
                   /\ s.kind = "index" => r.get[1] = e[st + 1]
                   /\ s.kind # "index" =>
                          /\ Len(r.get[1]) = ShapeEnd(s, n)[2] - st
                          /\ \A j \in 0..(Len(r.get[1]) - 1) :
                                 r.get[1][j + 1] = e[st + j + 1]

\* C15 witness: ..=1 on a slice of three different elements gave the view
\* of the first two.
C15_Witness ==
    /\ tlast.op = "slice_index"
    /\ tlast.item.kind = "to_inclusive"
    /\ tlast.item.end = Wide(0, 1)
    /\ Len(tlast.pre.elems) = 3
    /\ tlast.pre.elems[1] # tlast.pre.elems[2]
    /\ tlast.ret.get = Some(SubSeq(tlast.pre.elems, 1, 2))
    /\ ~tlast.ret.index.panic

\* The values a vector holds at the offsets before p, and from p on.
ValuesBefore(v, p) ==
    (IF v.pad > 0 /\ WLt(Wide(0, 0), p) THEN {v.fill} ELSE {})
        \cup {v.elems[j] : j \in {k \in 1..Len(v.elems) : WLt(Wide(v.pad, k - 1), p)}}

ValuesFrom(v, p) ==
    (IF WLt(p, Wide(v.pad, 0)) THEN {v.fill} ELSE {})
        \cup {v.elems[j] : j \in {k \in 1..Len(v.elems) : ~WLt(Wide(v.pad, k - 1), p)}}

\* C16: on a slice sorted ascending, binary_search(x) returns Ok(i) with the
\* element at index i equal to x when x is present, and otherwise Err(p)
\* with p the insertion point: as_index(p) <= len, every element before p
\* is < x and every element from p on is > x.
C16_BinarySearchFindsOrInserts ==
    tlast.op = "binary_search" =>
        LET v == tlast.pre
            x == tlast.item
            r == tlast.ret
            p == as_index_of(tvI, r.idx)
        IN  /\ r.ok <=> x \in ValuesFrom(v, Wide(0, 0))
            /\ r.ok => TSlice_get(tvI, v, r.idx) = Some(x)
            /\ ~r.ok =>
                   /\ WLe(p, VecLen(v))
                   /\ \A y \in ValuesBefore(v, p) : y < x
                   /\ \A y \in ValuesFrom(v, p) : y > x

====
